---- MODULE Spec2Model ----
(***************************************************************************)
(* TinyBoxedStr (helix-stdx/src/str.rs): a two-word owned string whose     *)
(* length byte decides whether the trailing word holds inline suffix bytes *)
(* or a pointer to a heap buffer.  The model keeps the struct's fields,    *)
(* the untagged union (with the field that was last written), and the      *)
(* global allocator's buffers.                                             *)
(***************************************************************************)
EXTENDS Integers, Sequences, FiniteSets, TLC

VARIABLES
    word,     \* size_of::<usize>() of the target (bytes)
    lens,     \* byte lengths of the texts callers pass in
    kinds,    \* variants of the texts callers pass in
    vals,     \* the program's TinyBoxedStr bindings (NoValue: none bound)
    given,    \* history: the text each bound value was made from
    heap,     \* the global allocator's buffers, by address
    last,     \* the last call: operation, arguments, result, allocator traffic
    fault,    \* undefined behaviour met so far ("none": none)
    tpc,      \* threads: position of each thread inside its current call
    treg      \* threads: locals of each thread's current call

vars == <<word, lens, kinds, vals, given, heap, last, fault, tpc, treg>>

----------------------------------------------------------------------------
(* Bounds of the model *)

MaxValues == 2      \* bindings of the sequential program
MaxAddr == 2        \* buffers the allocator can hand out at one time
MaxVariant == 1     \* texts per length: variants 0..MaxVariant
MaxTextLen == 258   \* longest text of the construct/read specification
MaxThreads == 2     \* threads of the concurrent program

(* Program constants *)

MAX_LEN == 255
U8_SIZE == 1
WordSizes == {4, 8}

PREFIX_LEN == word - U8_SIZE
SUFFIX_LEN == word
INLINE_LEN == (PREFIX_LEN + SUFFIX_LEN) % 256

Slots == 1..MaxValues
Addr == 1..MaxAddr
NULL == 0
UNINIT == -1        \* a byte of a buffer that was allocated and not yet written

----------------------------------------------------------------------------
(* Byte strings *)

Zeros(n) == [i \in 1..n |-> 0]

Min(a, b) == IF a <= b THEN a ELSE b

\* The text of length n, variant k.  Variant 0 is lower-case letters; variant 1
\* ends in a NUL byte; variant 2 starts with DEL.  All are valid UTF-8.
Text(n, k) ==
    [i \in 1..n |->
        IF k = 1 /\ i = n THEN 0
        ELSE IF k = 2 /\ i = 1 THEN 127
        ELSE 97 + (i % 26)]

Texts == {Text(n, k) : n \in lens, k \in kinds}

\* dst[..Len(src)].copy_from_slice(src)
CopyInto(dst, src) ==
    [i \in 1..Len(dst) |-> IF i <= Len(src) THEN src[i] ELSE dst[i]]

\* &bytes[from..]  (0-based from)
SliceFrom(bytes, from) == SubSeq(bytes, from + 1, Len(bytes))

\* &bytes[..to]
SliceTo(bytes, to) == SubSeq(bytes, 1, to)

----------------------------------------------------------------------------
(* The struct and its union *)

\* TinyStrTrailing { suffix }
Suffix(bytes) == [tag |-> "suffix", suffix |-> bytes, ptr |-> NULL]

\* TinyStrTrailing { ptr }
Ptr(p) == [tag |-> "ptr", suffix |-> <<>>, ptr |-> p]

TinyBoxedStr(len, prefix, trailing) ==
    [len |-> len, prefix |-> prefix, trailing |-> trailing]

\* No value is bound (never constructed, moved out or dropped).
NoValue == [len |-> 0, prefix |-> <<>>, trailing |-> [tag |-> "none", suffix |-> <<>>, ptr |-> NULL]]

\* What a reinterpreted word may hold.
GarbageBytes == {0, 255}

FirstFault(f, g) == IF f # "none" THEN f ELSE g

\* unsafe { self.trailing.suffix }: the bytes written as suffix, or, when the
\* union holds a pointer, whatever bytes the pointer has.
ReadSuffix(tr) ==
    IF tr.tag = "suffix"
    THEN {[suffix |-> tr.suffix, fault |-> "none"]}
    ELSE {[suffix |-> [i \in 1..SUFFIX_LEN |-> g], fault |-> "union_misread"] :
            g \in GarbageBytes}

\* unsafe { self.trailing.ptr }: the pointer written, or, when the union holds
\* suffix bytes, whatever address those bytes spell.
ReadPtr(tr) ==
    IF tr.tag = "ptr"
    THEN {[ptr |-> tr.ptr, fault |-> "none"]}
    ELSE {[ptr |-> a, fault |-> "union_misread"] : a \in Addr \cup {NULL}}

----------------------------------------------------------------------------
(* The global allocator *)

FreeCell == [live |-> FALSE, size |-> 0, bytes |-> <<>>]

PadToAlign(size, align) == ((size + align - 1) \div align) * align

\* Variant of layout: one byte more than the content (room for a terminator).
layout_plus1(len) == [size |-> PadToAlign(len + 1, U8_SIZE), align |-> U8_SIZE]

layout(len) == [size |-> PadToAlign(len, U8_SIZE), align |-> U8_SIZE]

\* alloc::alloc: a fresh uninitialised buffer, or null.
alloc(h, lay) ==
    {[ptr |-> NULL, heap |-> h]}
    \cup {[ptr |-> a,
           heap |-> [h EXCEPT ![a] = [live |-> TRUE, size |-> lay.size,
                                      bytes |-> [i \in 1..lay.size |-> UNINIT]]]] :
            a \in {x \in Addr : ~h[x].live}}

\* alloc::dealloc(ptr, layout)
dealloc(h, p, lay) ==
    IF p \notin Addr \/ ~h[p].live
    THEN [heap |-> h, fault |-> "invalid_free"]
    ELSE [heap |-> [h EXCEPT ![p] = FreeCell],
          fault |-> IF h[p].size = lay.size THEN "none" ELSE "layout_mismatch"]

\* ptr::copy_nonoverlapping(source.as_ptr(), ptr, source.len())
CopyNonoverlapping(h, p, source) ==
    [heap |-> [h EXCEPT ![p].bytes = CopyInto(@, source)],
     fault |-> IF Len(source) > h[p].size THEN "oob_write" ELSE "none"]

copy_bytes(source, h) ==
    LET lay == layout(Len(source)) IN
    {IF r.ptr = NULL
     THEN [kind |-> "abort", ptr |-> NULL, heap |-> h, fault |-> "none", allocs |-> <<>>]
     ELSE LET w == CopyNonoverlapping(r.heap, r.ptr, source) IN
          [kind |-> "ok", ptr |-> r.ptr, heap |-> w.heap,
           fault |-> IF lay.size = 0 THEN "zero_size_alloc" ELSE w.fault,
           allocs |-> <<[ptr |-> r.ptr, size |-> lay.size]>>] :
        r \in alloc(h, lay)}

----------------------------------------------------------------------------
(* TinyBoxedStr's methods, as functions of the value and the heap *)

len(v) == v.len

is_empty(v) == v.len = 0

\* slice::from_raw_parts(ptr, n) on a heap pointer
HeapSlice(h, p, n) ==
    IF p \notin Addr \/ ~h[p].live
    THEN {[bytes |-> [i \in 1..n |-> g], fault |-> "dangling_read"] : g \in GarbageBytes}
    ELSE IF h[p].size < n
    THEN {[bytes |-> [i \in 1..n |-> g], fault |-> "oob_read"] : g \in GarbageBytes}
    ELSE {[bytes |-> SubSeq(h[p].bytes, 1, n),
           fault |-> IF \E i \in 1..n : h[p].bytes[i] = UNINIT
                     THEN "uninit_read" ELSE "none"]}

\* Variant of as_bytes: the threshold compared with < instead of <=.
as_bytes_lt(v, h) ==
    IF v.len < INLINE_LEN
    THEN IF v.len <= PREFIX_LEN
         THEN {[bytes |-> SubSeq(v.prefix, 1, v.len), fault |-> "none"]}
         ELSE {[bytes |-> SubSeq(v.prefix \o r.suffix, 1, v.len), fault |-> r.fault] :
                r \in ReadSuffix(v.trailing)}
    ELSE UNION {{[bytes |-> b.bytes, fault |-> FirstFault(r.fault, b.fault)] :
                    b \in HeapSlice(h, r.ptr, len(v))} :
                r \in ReadPtr(v.trailing)}

as_bytes(v, h) ==
    IF v.len <= INLINE_LEN
    THEN IF v.len <= PREFIX_LEN
         THEN {[bytes |-> SubSeq(v.prefix, 1, v.len), fault |-> "none"]}
         ELSE {[bytes |-> SubSeq(v.prefix \o r.suffix, 1, v.len), fault |-> r.fault] :
                r \in ReadSuffix(v.trailing)}
    ELSE UNION {{[bytes |-> b.bytes, fault |-> FirstFault(r.fault, b.fault)] :
                    b \in HeapSlice(h, r.ptr, len(v))} :
                r \in ReadPtr(v.trailing)}

as_str(v, h) == as_bytes(v, h)

Outcome(kind, val, h, f, allocs) ==
    [kind |-> kind, val |-> val, heap |-> h, fault |-> f, allocs |-> allocs]

\* The inline branch of try_from: prefix and suffix, zero-padded.
InlineValue(s) ==
    LET n == Len(s) % 256
        prefix == Zeros(PREFIX_LEN)
        suffix == Zeros(SUFFIX_LEN)
    IN  IF Len(s) <= PREFIX_LEN
        THEN [kind |-> "Ok", val |-> TinyBoxedStr(n, CopyInto(prefix, s), Suffix(suffix))]
        ELSE IF Len(s) - PREFIX_LEN > SUFFIX_LEN
        THEN [kind |-> "panic", val |-> NoValue]
        ELSE [kind |-> "Ok",
              val |-> TinyBoxedStr(n, CopyInto(prefix, SliceTo(s, PREFIX_LEN)),
                                   Suffix(CopyInto(suffix, SliceFrom(s, PREFIX_LEN))))]

\* Variant of try_from: the length check off by one (> MAX_LEN + 1).
TryFromHead_off(s) ==
    IF Len(s) > MAX_LEN + 1
    THEN [kind |-> "Err", val |-> NoValue]
    ELSE IF Len(s) % 256 <= INLINE_LEN
    THEN InlineValue(s)
    ELSE IF Len(s) < PREFIX_LEN
    THEN [kind |-> "panic", val |-> NoValue]
    ELSE [kind |-> "heap",
          val |-> TinyBoxedStr(Len(s) % 256, CopyInto(Zeros(PREFIX_LEN), SliceTo(s, PREFIX_LEN)),
                               Ptr(NULL))]

\* Variant of try_from: the heap branch does not fill the prefix.
TryFromHead_noprefix(s) ==
    IF Len(s) > MAX_LEN
    THEN [kind |-> "Err", val |-> NoValue]
    ELSE IF Len(s) % 256 <= INLINE_LEN
    THEN InlineValue(s)
    ELSE [kind |-> "heap",
          val |-> TinyBoxedStr(Len(s) % 256, Zeros(PREFIX_LEN), Ptr(NULL))]

\* try_from up to the call of copy_bytes: the error, the inline value, or the
\* heap value still lacking its pointer.
TryFromHead(s) ==
    IF Len(s) > MAX_LEN
    THEN [kind |-> "Err", val |-> NoValue]
    ELSE
    LET n == Len(s) % 256
        bytes == s
        prefix == Zeros(PREFIX_LEN)
    IN  IF n <= INLINE_LEN
        THEN InlineValue(s)
        ELSE IF Len(s) < PREFIX_LEN
             THEN [kind |-> "panic", val |-> NoValue]
             ELSE [kind |-> "heap",
                   val |-> TinyBoxedStr(n, CopyInto(prefix, SliceTo(bytes, PREFIX_LEN)),
                                        Ptr(NULL))]

try_from(s, h) ==
    LET hd == TryFromHead(s) IN
    IF hd.kind # "heap"
    THEN {Outcome(hd.kind, hd.val, h, "none", <<>>)}
    ELSE {IF c.kind = "abort"
          THEN Outcome("abort", NoValue, h, "none", <<>>)
          ELSE Outcome("Ok", [hd.val EXCEPT !.trailing = Ptr(c.ptr)],
                       c.heap, c.fault, c.allocs) :
            c \in copy_bytes(s, h)}

\* Variant of clone: the threshold compared with < instead of <=.
CloneHead_lt(v) ==
    IF v.len < INLINE_LEN
    THEN {[kind |-> "Ok", val |-> TinyBoxedStr(v.len, v.prefix, Suffix(r.suffix)),
           fault |-> r.fault] :
            r \in ReadSuffix(v.trailing)}
    ELSE {[kind |-> "heap", val |-> TinyBoxedStr(v.len, v.prefix, Ptr(NULL)),
           fault |-> "none"]}

\* clone up to the call of copy_bytes: the inline copy, or the heap copy still
\* lacking its pointer.
CloneHead(v) ==
    IF v.len <= INLINE_LEN
    THEN {[kind |-> "Ok", val |-> TinyBoxedStr(v.len, v.prefix, Suffix(r.suffix)),
           fault |-> r.fault] :
            r \in ReadSuffix(v.trailing)}
    ELSE {[kind |-> "heap", val |-> TinyBoxedStr(v.len, v.prefix, Ptr(NULL)),
           fault |-> "none"]}

\* Variant of clone: a bitwise copy of the struct, pointer included.
clone_shallow(v, h) == {Outcome("Ok", v, h, "none", <<>>)}

clone(v, h) ==
    UNION {IF hd.kind # "heap"
           THEN {Outcome(hd.kind, hd.val, h, hd.fault, <<>>)}
           ELSE UNION {{IF c.kind = "abort"
                        THEN Outcome("abort", NoValue, h, b.fault, <<>>)
                        ELSE Outcome("Ok", [hd.val EXCEPT !.trailing = Ptr(c.ptr)],
                                     c.heap, FirstFault(b.fault, c.fault), c.allocs) :
                            c \in copy_bytes(b.bytes, h)} :
                       b \in as_bytes(v, h)} :
           hd \in CloneHead(v)}

\* Variant of drop: the threshold one too high; a value of INLINE_LEN + 1
\* bytes is taken for inline.
drop_leak(v, h) ==
    IF v.len > INLINE_LEN + 1
    THEN {LET d == dealloc(h, r.ptr, layout(len(v))) IN
          [heap |-> d.heap, fault |-> FirstFault(r.fault, d.fault),
           frees |-> <<[ptr |-> r.ptr, size |-> layout(len(v)).size]>>] :
            r \in ReadPtr(v.trailing)}
    ELSE {[heap |-> h, fault |-> "none", frees |-> <<>>]}

\* Variant of drop: the threshold compared with >= instead of >; a value of
\* INLINE_LEN bytes is taken for heap-stored.
drop_ge(v, h) ==
    IF v.len >= INLINE_LEN
    THEN {LET d == dealloc(h, r.ptr, layout(len(v))) IN
          [heap |-> d.heap, fault |-> FirstFault(r.fault, d.fault),
           frees |-> <<[ptr |-> r.ptr, size |-> layout(len(v)).size]>>] :
            r \in ReadPtr(v.trailing)}
    ELSE {[heap |-> h, fault |-> "none", frees |-> <<>>]}

drop(v, h) ==
    IF v.len > INLINE_LEN
    THEN {LET d == dealloc(h, r.ptr, layout(len(v))) IN
          [heap |-> d.heap, fault |-> FirstFault(r.fault, d.fault),
           frees |-> <<[ptr |-> r.ptr, size |-> layout(len(v)).size]>>] :
            r \in ReadPtr(v.trailing)}
    ELSE {[heap |-> h, fault |-> "none", frees |-> <<>>]}

\* Variant of default: a length of one.
default_len1 ==
    TinyBoxedStr(1, Zeros(PREFIX_LEN), Suffix(Zeros(SUFFIX_LEN)))

default ==
    TinyBoxedStr(0, Zeros(PREFIX_LEN), Suffix(Zeros(SUFFIX_LEN)))

\* Variant of eq: the two structs compared word by word (length and prefix,
\* then the trailing word), which for heap values compares the pointers.
eq_raw(v, w, h) == {[flag |-> (v = w), fault |-> "none"]}

\* PartialEq for TinyBoxedStr
eq(v, w, h) ==
    {[flag |-> (x.bytes = y.bytes), fault |-> FirstFault(x.fault, y.fault)] :
        x \in as_str(v, h), y \in as_str(w, h)}

\* PartialEq<str> for TinyBoxedStr
eq_str(v, s, h) ==
    {[flag |-> (x.bytes = s), fault |-> x.fault] : x \in as_str(v, h)}

\* Hash for TinyBoxedStr: what the hasher is fed (str's Hash writes the bytes,
\* then 0xff).
hash(v, h) ==
    {[bytes |-> Append(x.bytes, 255), fault |-> x.fault] : x \in as_str(v, h)}

----------------------------------------------------------------------------
(* The sequential program: calls on the bindings vals[1..MaxValues] *)

Threads == 1..MaxThreads

Call(op, a, b, text, kind, bytes, flag, num, allocs, frees) ==
    [op |-> op, a |-> a, b |-> b, text |-> text, kind |-> kind, bytes |-> bytes,
     flag |-> flag, num |-> num, allocs |-> allocs, frees |-> frees]

NoCall == Call("none", 0, 0, <<>>, "ret", <<>>, FALSE, 0, <<>>, <<>>)

NoReg == [op |-> "none", slot |-> 0, src |-> 0, bytes |-> <<>>, ptr |-> NULL, val |-> NoValue]

\* The lengths at which the representation changes, and their neighbours.
BoundaryLens ==
    {0, PREFIX_LEN, PREFIX_LEN + 1, INLINE_LEN, INLINE_LEN + 1, MAX_LEN, MAX_LEN + 1}

InitCommon ==
    /\ word \in WordSizes
    /\ heap = [a \in Addr |-> FreeCell]
    /\ last = NoCall
    /\ fault = "none"
    /\ tpc = [t \in Threads |-> "idle"]
    /\ treg = [t \in Threads |-> NoReg]

\* The lifecycle program: one text of every boundary length.
Init ==
    /\ InitCommon
    /\ vals = [i \in Slots |-> NoValue]
    /\ given = [i \in Slots |-> <<>>]
    /\ lens = BoundaryLens
    /\ kinds = {0}

\* The process is running: it has not aborted or panicked, and nothing
\* undefined has happened.
Running == fault = "none" /\ last.kind \notin {"abort", "panic"}

Bound(i) == vals[i] # NoValue

\* let vals[i] = TinyBoxedStr::try_from(s)
TryFrom(i, s) ==
    /\ Running
    /\ ~Bound(i)
    /\ \E o \in try_from(s, heap) :
        /\ vals' = IF o.kind = "Ok" THEN [vals EXCEPT ![i] = o.val] ELSE vals
        /\ given' = IF o.kind = "Ok" THEN [given EXCEPT ![i] = s] ELSE given
        /\ heap' = o.heap
        /\ fault' = o.fault
        /\ last' = Call("try_from", i, 0, s, o.kind, <<>>, FALSE, 0, o.allocs, <<>>)
    /\ UNCHANGED <<word, lens, kinds, tpc, treg>>

\* let vals[j] = vals[i].clone()
Clone(i, j) ==
    /\ Running
    /\ Bound(i)
    /\ ~Bound(j)
    /\ \E o \in clone(vals[i], heap) :
        /\ vals' = IF o.kind = "Ok" THEN [vals EXCEPT ![j] = o.val] ELSE vals
        /\ given' = IF o.kind = "Ok" THEN [given EXCEPT ![j] = given[i]] ELSE given
        /\ heap' = o.heap
        /\ fault' = o.fault
        /\ last' = Call("clone", i, j, <<>>, o.kind, <<>>, FALSE, 0, o.allocs, <<>>)
    /\ UNCHANGED <<word, lens, kinds, tpc, treg>>

\* drop(vals[i])
Drop(i) ==
    /\ Running
    /\ Bound(i)
    /\ \E o \in drop(vals[i], heap) :
        /\ vals' = [vals EXCEPT ![i] = NoValue]
        /\ given' = [given EXCEPT ![i] = <<>>]
        /\ heap' = o.heap
        /\ fault' = o.fault
        /\ last' = Call("drop", i, 0, <<>>, "ret", <<>>, FALSE, 0, <<>>, o.frees)
    /\ UNCHANGED <<word, lens, kinds, tpc, treg>>

\* let vals[i] = TinyBoxedStr::default()
Default(i) ==
    /\ Running
    /\ ~Bound(i)
    /\ vals' = [vals EXCEPT ![i] = default]
    /\ given' = [given EXCEPT ![i] = <<>>]
    /\ last' = Call("default", i, 0, <<>>, "Ok", <<>>, FALSE, 0, <<>>, <<>>)
    /\ UNCHANGED <<word, lens, kinds, heap, fault, tpc, treg>>

\* vals[i].as_bytes()
AsBytes(i) ==
    /\ Running
    /\ Bound(i)
    /\ \E o \in as_bytes(vals[i], heap) :
        /\ fault' = o.fault
        /\ last' = Call("as_bytes", i, 0, <<>>, "ret", o.bytes, FALSE, 0, <<>>, <<>>)
    /\ UNCHANGED <<word, lens, kinds, vals, given, heap, tpc, treg>>

\* vals[i].as_str()
AsStr(i) ==
    /\ Running
    /\ Bound(i)
    /\ \E o \in as_str(vals[i], heap) :
        /\ fault' = o.fault
        /\ last' = Call("as_str", i, 0, <<>>, "ret", o.bytes, FALSE, 0, <<>>, <<>>)
    /\ UNCHANGED <<word, lens, kinds, vals, given, heap, tpc, treg>>

\* vals[i].len() and vals[i].is_empty()
LenIsEmpty(i) ==
    /\ Running
    /\ Bound(i)
    /\ last' = Call("len", i, 0, <<>>, "ret", <<>>, is_empty(vals[i]), len(vals[i]),
                    <<>>, <<>>)
    /\ UNCHANGED <<word, lens, kinds, vals, given, heap, fault, tpc, treg>>

\* vals[i] == vals[j]
Eq(i, j) ==
    /\ Running
    /\ Bound(i)
    /\ Bound(j)
    /\ \E o \in eq(vals[i], vals[j], heap) :
        /\ fault' = o.fault
        /\ last' = Call("eq", i, j, <<>>, "ret", <<>>, o.flag, 0, <<>>, <<>>)
    /\ UNCHANGED <<word, lens, kinds, vals, given, heap, tpc, treg>>

\* vals[i] == *s
EqStr(i, s) ==
    /\ Running
    /\ Bound(i)
    /\ \E o \in eq_str(vals[i], s, heap) :
        /\ fault' = o.fault
        /\ last' = Call("eq_str", i, 0, s, "ret", <<>>, o.flag, 0, <<>>, <<>>)
    /\ UNCHANGED <<word, lens, kinds, vals, given, heap, tpc, treg>>

\* vals[i].hash(&mut hasher)
Hash(i) ==
    /\ Running
    /\ Bound(i)
    /\ \E o \in hash(vals[i], heap) :
        /\ fault' = o.fault
        /\ last' = Call("hash", i, 0, <<>>, "ret", o.bytes, FALSE, 0, <<>>, <<>>)
    /\ UNCHANGED <<word, lens, kinds, vals, given, heap, tpc, treg>>

Next ==
    \/ \E i \in Slots, s \in Texts : TryFrom(i, s)
    \/ \E i, j \in Slots : Clone(i, j)
    \/ \E i \in Slots : Drop(i)
    \/ \E i \in Slots : Default(i)
    \/ \E i \in Slots : AsBytes(i)
    \/ \E i \in Slots : LenIsEmpty(i)
    \/ \E i, j \in Slots : Eq(i, j)

Spec == Init /\ [][Next]_vars

----------------------------------------------------------------------------
(* The comparing program: texts that differ in length or in one byte *)

CompareLens == {0, INLINE_LEN, INLINE_LEN + 1}

InitCompare ==
    /\ InitCommon
    /\ vals = [i \in Slots |-> NoValue]
    /\ given = [i \in Slots |-> <<>>]
    /\ lens = CompareLens
    /\ kinds = 0..MaxVariant

NextCompare ==
    \/ \E i \in Slots, s \in Texts : TryFrom(i, s)
    \/ \E i, j \in Slots : Clone(i, j)
    \/ \E i \in Slots : Default(i)
    \/ \E i, j \in Slots : Eq(i, j)
    \/ \E i \in Slots, s \in Texts : EqStr(i, s)
    \/ \E i \in Slots : Hash(i)

SpecCompare == InitCompare /\ [][NextCompare]_vars

----------------------------------------------------------------------------
(* The construct-and-read program: one text, of any length up to MaxTextLen *)

InitText ==
    /\ InitCommon
    /\ vals = [i \in Slots |-> NoValue]
    /\ given = [i \in Slots |-> <<>>]
    /\ \E n \in 0..MaxTextLen : lens = {n}
    /\ \E k \in 0..MaxVariant : kinds = {k}

NextText ==
    \/ \E s \in Texts : TryFrom(1, s)
    \/ Drop(1)
    \/ AsBytes(1)
    \/ AsStr(1)
    \/ LenIsEmpty(1)

SpecText == InitText /\ [][NextText]_vars

----------------------------------------------------------------------------
(* The concurrent program: each thread constructs, clones, reads and drops  *)
(* its own bindings vals[<<t, k>>]; the threads share only the allocator.   *)
(* A call that allocates takes three steps: up to copy_bytes, the           *)
(* allocation, and the copy into the new buffer with the return.            *)

\* Each thread has two bindings: a value and its clone.
TSlots == {1, 2}

ThreadLens == {INLINE_LEN, INLINE_LEN + 1}

InitThreads ==
    /\ InitCommon
    /\ vals = [key \in Threads \X TSlots |-> NoValue]
    /\ given = [key \in Threads \X TSlots |-> <<>>]
    /\ lens = ThreadLens
    /\ kinds = {0}

Reg(op, slot, src, bytes, p, val) ==
    [op |-> op, slot |-> slot, src |-> src, bytes |-> bytes, ptr |-> p, val |-> val]

Idle(t) == Running /\ tpc[t] = "idle"

\* thread t: let vals[<<t, k>>] = TinyBoxedStr::try_from(s), up to copy_bytes
TTryFrom(t, k, s) ==
    /\ Idle(t)
    /\ ~Bound(<<t, k>>)
    /\ LET hd == TryFromHead(s) IN
        /\ vals' = IF hd.kind = "Ok" THEN [vals EXCEPT ![<<t, k>>] = hd.val] ELSE vals
        /\ given' = IF hd.kind = "Ok" THEN [given EXCEPT ![<<t, k>>] = s] ELSE given
        /\ tpc' = IF hd.kind = "heap" THEN [tpc EXCEPT ![t] = "alloc"] ELSE tpc
        /\ treg' = [treg EXCEPT ![t] = IF hd.kind = "heap"
                                       THEN Reg("try_from", k, 0, s, NULL, hd.val)
                                       ELSE NoReg]
        /\ last' = IF hd.kind = "panic" THEN [last EXCEPT !.kind = "panic"] ELSE last
    /\ UNCHANGED <<word, lens, kinds, heap, fault>>

\* thread t: let vals[<<t, j>>] = vals[<<t, k>>].clone(), up to copy_bytes
TClone(t, k, j) ==
    /\ Idle(t)
    /\ Bound(<<t, k>>)
    /\ ~Bound(<<t, j>>)
    /\ \E hd \in CloneHead(vals[<<t, k>>]) :
        /\ vals' = IF hd.kind = "Ok" THEN [vals EXCEPT ![<<t, j>>] = hd.val] ELSE vals
        /\ given' = IF hd.kind = "Ok" THEN [given EXCEPT ![<<t, j>>] = given[<<t, k>>]]
                                      ELSE given
        /\ tpc' = IF hd.kind = "heap" THEN [tpc EXCEPT ![t] = "alloc"] ELSE tpc
        /\ treg' = [treg EXCEPT ![t] = IF hd.kind = "heap"
                                       THEN Reg("clone", j, k, <<>>, NULL, hd.val)
                                       ELSE NoReg]
        /\ fault' = hd.fault
    /\ UNCHANGED <<word, lens, kinds, heap, last>>

\* The length of the source slice of thread t's copy_bytes.
SourceLen(t) ==
    IF treg[t].op = "try_from" THEN Len(treg[t].bytes) ELSE len(vals[<<t, treg[t].src>>])

\* thread t: alloc::alloc in copy_bytes
TAlloc(t) ==
    /\ Running
    /\ tpc[t] = "alloc"
    /\ \E r \in alloc(heap, layout(SourceLen(t))) :
        /\ heap' = r.heap
        /\ last' = IF r.ptr = NULL THEN [last EXCEPT !.kind = "abort"] ELSE last
        /\ tpc' = [tpc EXCEPT ![t] = IF r.ptr = NULL THEN "aborted" ELSE "copy"]
        /\ treg' = [treg EXCEPT ![t].ptr = r.ptr]
    /\ UNCHANGED <<word, lens, kinds, vals, given, fault>>

\* thread t: the copy into the new buffer, and the return of the value
TCopy(t) ==
    /\ Running
    /\ tpc[t] = "copy"
    /\ \E b \in IF treg[t].op = "try_from"
                THEN {[bytes |-> treg[t].bytes, fault |-> "none"]}
                ELSE as_bytes(vals[<<t, treg[t].src>>], heap) :
        LET w == CopyNonoverlapping(heap, treg[t].ptr, b.bytes) IN
        /\ heap' = w.heap
        /\ fault' = FirstFault(b.fault, w.fault)
        /\ vals' = [vals EXCEPT ![<<t, treg[t].slot>>] =
                        [treg[t].val EXCEPT !.trailing = Ptr(treg[t].ptr)]]
    /\ given' = [given EXCEPT ![<<t, treg[t].slot>>] =
                    IF treg[t].op = "try_from" THEN treg[t].bytes
                    ELSE given[<<t, treg[t].src>>]]
    /\ tpc' = [tpc EXCEPT ![t] = "idle"]
    /\ treg' = [treg EXCEPT ![t] = NoReg]
    /\ UNCHANGED <<word, lens, kinds, last>>

\* thread t: drop(vals[<<t, k>>])
TDrop(t, k) ==
    /\ Idle(t)
    /\ Bound(<<t, k>>)
    /\ \E o \in drop(vals[<<t, k>>], heap) :
        /\ vals' = [vals EXCEPT ![<<t, k>>] = NoValue]
        /\ given' = [given EXCEPT ![<<t, k>>] = <<>>]
        /\ heap' = o.heap
        /\ fault' = o.fault
    /\ treg' = [treg EXCEPT ![t] = NoReg]
    /\ UNCHANGED <<word, lens, kinds, last, tpc>>

\* thread t: vals[<<t, k>>].as_bytes(); the bytes read are the thread's own
\* business, a read of memory that is not the value's is everybody's.
TRead(t, k) ==
    /\ Idle(t)
    /\ Bound(<<t, k>>)
    /\ \E o \in as_bytes(vals[<<t, k>>], heap) : fault' = o.fault
    /\ treg' = [treg EXCEPT ![t] = NoReg]
    /\ UNCHANGED <<word, lens, kinds, vals, given, heap, last, tpc>>

NextThreads ==
    \/ \E t \in Threads, k \in TSlots, s \in Texts : TTryFrom(t, k, s)
    \/ \E t \in Threads, k, j \in TSlots : TClone(t, k, j)
    \/ \E t \in Threads : TAlloc(t)
    \/ \E t \in Threads : TCopy(t)
    \/ \E t \in Threads, k \in TSlots : TDrop(t, k)
    \/ \E t \in Threads, k \in TSlots : TRead(t, k)

SpecThreads == InitThreads /\ [][NextThreads]_vars

----------------------------------------------------------------------------
(* Properties *)

Keys == DOMAIN vals

LiveAddrs == {a \in Addr : heap[a].live}

HeapStored(i) == Bound(i) /\ vals[i].trailing.tag = "ptr"

\* bytes, then zeros up to n
ZeroPad(bytes, n) == [i \in 1..n |-> IF i <= Len(bytes) THEN bytes[i] ELSE 0]

\* Reading v gives exactly the bytes t, and nothing undefined happens.
Reads(v, t) == as_bytes(v, heap) = {[bytes |-> t, fault |-> "none"]}

\* C1: try_from of a text of at most MAX_LEN bytes never returns Err and never
\* panics; when it returns (it does unless the allocator fails, which ends the
\* process inside copy_bytes) it returns Ok(v) with v.len() the text's byte
\* length and v.as_bytes() / v.as_str() the text byte for byte, inline or heap.
C1_RoundTrip ==
    /\ fault = "none"
    /\ (last.op = "try_from" /\ Len(last.text) <= MAX_LEN) =>
        /\ last.kind \in {"Ok", "abort"}
        /\ last.kind = "Ok" =>
            /\ Bound(last.a)
            /\ len(vals[last.a]) = Len(last.text)
            /\ Reads(vals[last.a], last.text)
            /\ as_str(vals[last.a], heap) = {[bytes |-> last.text, fault |-> "none"]}
            /\ (vals[last.a].trailing.tag = "ptr") <=> (Len(last.text) > INLINE_LEN)
    /\ last.op \in {"as_bytes", "as_str"} => last.bytes = given[last.a]
    /\ last.op = "len" => last.num = Len(given[last.a])

\* C1's case: a heap-stored text of MAX_LEN bytes was constructed and read back.
C1_Witness ==
    /\ last.op = "as_str"
    /\ last.a = 1
    /\ vals[1].trailing.tag = "ptr"
    /\ last.bytes = Text(MAX_LEN, 1)
    /\ given[1] = Text(MAX_LEN, 1)

\* C2: try_from of a text longer than MAX_LEN returns Err, allocates nothing and
\* leaves the bound values and the allocator's buffers as they were; and
\* try_from returns Err in no other case.  (A step that ends with a try_from
\* call record is a TryFrom step: no other action writes one.)
C2_TooLong ==
    [][last'.op = "try_from" =>
            /\ (last'.kind = "Err") <=> (Len(last'.text) > MAX_LEN)
            /\ Len(last'.text) > MAX_LEN =>
                /\ vals' = vals
                /\ given' = given
                /\ heap' = heap
                /\ fault' = fault
                /\ last'.allocs = <<>>]_vars

\* C2's case: a too-long text was refused while another value held a buffer.
C2_Witness ==
    /\ last.op = "try_from"
    /\ last.kind = "Err"
    /\ Len(last.text) = MAX_LEN + 1
    /\ \E j \in Slots : HeapStored(j)
    /\ LiveAddrs # {}

\* C3: whatever the order of constructions, clones and drops, no buffer is
\* released twice (or released without having been allocated), and when no
\* value is left no buffer is left allocated.
C3_NoLeakNoDoubleFree ==
    /\ fault # "invalid_free"
    /\ (\A i \in Slots : ~Bound(i)) => LiveAddrs = {}
    /\ last.op = "drop" => \A n \in 1..Len(last.frees) : ~heap[last.frees[n].ptr].live

\* C3's case: the last value, a heap-stored one of MAX_LEN bytes, was dropped.
C3_Witness ==
    /\ last.op = "drop"
    /\ Len(last.frees) = 1
    /\ last.frees[1].size = MAX_LEN
    /\ \A i \in Slots : ~Bound(i)
    /\ LiveAddrs = {}

\* C4 (states): right after a clone the clone has the original's length and
\* content, and for a heap-stored original a buffer of its own, allocated by
\* this clone; no two bound values share a buffer, and every bound heap value's
\* buffer is allocated.
C4_State ==
    /\ (last.op = "clone" /\ last.kind = "Ok") =>
        /\ Bound(last.a) /\ Bound(last.b)
        /\ len(vals[last.b]) = len(vals[last.a])
        /\ Reads(vals[last.a], given[last.a])
        /\ Reads(vals[last.b], given[last.a])
        /\ HeapStored(last.a) =>
            /\ HeapStored(last.b)
            /\ vals[last.b].trailing.ptr # vals[last.a].trailing.ptr
            /\ last.allocs = <<[ptr |-> vals[last.b].trailing.ptr,
                                size |-> len(vals[last.a])]>>
    /\ \A i, j \in Slots :
        (i # j /\ HeapStored(i) /\ HeapStored(j)) =>
            vals[i].trailing.ptr # vals[j].trailing.ptr
    /\ \A i \in Slots : HeapStored(i) => heap[vals[i].trailing.ptr].live

\* C4 (steps): dropping one value leaves every other bound value reading the
\* same content as before, with its buffer still allocated.  (A step that ends
\* with a drop call record is a Drop step of the binding it names.)
C4_Step ==
    last'.op = "drop" =>
        \A j \in Slots \ {last'.a} :
            Bound(j) =>
                /\ vals'[j] = vals[j]
                /\ as_bytes(vals'[j], heap') = as_bytes(vals[j], heap)
                /\ as_bytes(vals'[j], heap') = {[bytes |-> given[j], fault |-> "none"]}
                /\ HeapStored(j) => heap'[vals[j].trailing.ptr].live

\* C4: a clone has the length and content of its original; a heap-stored value
\* and its clone own distinct buffers, so dropping either leaves the other's
\* content readable and unchanged and its buffer allocated; no two bound values
\* ever share a buffer.
C4_CloneIndependent == []C4_State /\ [][C4_Step]_vars

\* C4's case: a heap-stored value of MAX_LEN bytes was cloned.
C4_Witness ==
    /\ last.op = "clone"
    /\ last.kind = "Ok"
    /\ HeapStored(last.a)
    /\ HeapStored(last.b)
    /\ len(vals[last.b]) = MAX_LEN
    /\ Cardinality(LiveAddrs) = 2

\* C5: INLINE_LEN is 15 on a 64-bit target and 7 on a 32-bit one; a successful
\* try_from of a text of at most INLINE_LEN bytes allocates nothing, one of a
\* longer text allocates exactly one buffer, of exactly the text's byte length.
C5_Allocations ==
    /\ word = 8 => INLINE_LEN = 15
    /\ word = 4 => INLINE_LEN = 7
    /\ (last.op = "try_from" /\ last.kind = "Ok") =>
        IF Len(last.text) <= INLINE_LEN
        THEN /\ last.allocs = <<>>
             /\ LiveAddrs = {}
        ELSE /\ Len(last.allocs) = 1
             /\ last.allocs[1].size = Len(last.text)
             /\ LiveAddrs = {last.allocs[1].ptr}
             /\ heap[last.allocs[1].ptr].size = Len(last.text)

\* C5's case: a text of INLINE_LEN + 1 = 16 bytes was constructed on a 64-bit
\* target.
C5_Witness ==
    /\ word = 8
    /\ last.op = "try_from"
    /\ last.kind = "Ok"
    /\ Len(last.text) = INLINE_LEN + 1
    /\ Len(last.allocs) = 1
    /\ last.allocs[1].size = 16

\* C6: a == b is true exactly when the two values' contents are equal, and
\* a == *s exactly when a's content is s; what a value feeds the hasher is its
\* content as a str (the bytes, then 0xff), so values that compare equal feed
\* the hasher the same data.
C6_EqHash ==
    /\ fault = "none"
    /\ last.op = "eq" => last.flag = (given[last.a] = given[last.b])
    /\ last.op = "eq_str" => last.flag = (given[last.a] = last.text)
    /\ last.op = "hash" => last.bytes = Append(given[last.a], 255)
    /\ \A i, j \in Slots :
        (Bound(i) /\ Bound(j) /\ \E e \in eq(vals[i], vals[j], heap) : e.flag) =>
            hash(vals[i], heap) = hash(vals[j], heap)

\* C6's case: two heap-stored values in different buffers compared equal.
C6_Witness ==
    /\ last.op = "eq"
    /\ last.flag
    /\ last.a # last.b
    /\ HeapStored(last.a)
    /\ HeapStored(last.b)
    /\ vals[last.a].trailing.ptr # vals[last.b].trailing.ptr

\* C7 (states): right after default() the value has length 0, is empty, equals
\* try_from(""), and a drop of it would release nothing; the call allocated
\* nothing.
C7_State ==
    /\ last.op = "default" =>
        /\ last.kind = "Ok"
        /\ last.allocs = <<>>
        /\ Bound(last.a)
        /\ len(vals[last.a]) = 0
        /\ is_empty(vals[last.a])
        /\ \A o \in try_from(<<>>, heap) :
            /\ o.kind = "Ok"
            /\ \A e \in eq(vals[last.a], o.val, o.heap) : e.flag /\ e.fault = "none"
        /\ \A d \in drop(vals[last.a], heap) :
            d.frees = <<>> /\ d.heap = heap /\ d.fault = "none"
    /\ (last.op = "len" /\ vals[last.a] = default) => (last.flag /\ last.num = 0)
    /\ (last.op = "eq" /\ vals[last.a] = default /\ given[last.b] = <<>>) => last.flag

\* C7 (steps): default() leaves the allocator alone, and so does the drop of a
\* default value.
C7_Step ==
    /\ last'.op = "default" => (heap' = heap /\ fault' = fault)
    /\ (last'.op = "drop" /\ vals[last'.a] = default) =>
            (heap' = heap /\ last'.frees = <<>> /\ fault' = fault)

\* C7: default() always succeeds without allocating, yields an empty value of
\* length 0 that equals try_from(""), and dropping it releases nothing.
C7_Default == []C7_State /\ [][C7_Step]_vars

\* C7's case: default() was called while another binding holds try_from("").
C7_Witness ==
    /\ last.op = "default"
    /\ is_empty(vals[last.a])
    /\ \E j \in Slots : j # last.a /\ Bound(j) /\ vals[j] = vals[last.a]

\* The bound values that point at buffer a.
Owners(a) == {k \in Keys : HeapStored(k) /\ vals[k].trailing.ptr = a}

\* The calls that have allocated buffer a and not yet returned its value.
InFlight(a) == {t \in Threads : tpc[t] = "copy" /\ treg[t].ptr = a}

\* C8: in every interleaving of threads that construct, clone, read and drop
\* their own values, every allocated buffer belongs to exactly one value (or to
\* the one call still building it) and no free buffer to any; so nothing is
\* released twice, no thread releases another's buffer, and every value reads
\* back its own content from an allocated buffer.
C8_Threads ==
    /\ fault = "none"
    /\ \A a \in Addr :
        Cardinality(Owners(a)) + Cardinality(InFlight(a)) = IF heap[a].live THEN 1 ELSE 0
    /\ \A k \in Keys : Bound(k) => Reads(vals[k], given[k])

\* C8's case: both threads are between the allocation and the copy, each with
\* a buffer of its own that no value points at yet.
C8_Witness ==
    /\ tpc[1] = "copy"
    /\ tpc[2] = "copy"
    /\ treg[1].ptr # treg[2].ptr
    /\ Cardinality(LiveAddrs) = 2

\* C9: every bound value holds a pointer exactly when its len exceeds
\* INLINE_LEN, and then its buffer is allocated with exactly len bytes; the
\* bound heap values account for all allocated buffers; no call ever reads the
\* union through the field that was not written, and no drop releases with a
\* size other than the allocated one.
C9_Threshold ==
    /\ fault = "none"
    /\ \A i \in Slots :
        Bound(i) =>
            /\ (vals[i].trailing.tag = "ptr") <=> (vals[i].len > INLINE_LEN)
            /\ (vals[i].trailing.tag = "suffix") <=> (vals[i].len <= INLINE_LEN)
            /\ vals[i].trailing.tag = "ptr" =>
                /\ vals[i].trailing.ptr \in LiveAddrs
                /\ heap[vals[i].trailing.ptr].size = vals[i].len
    /\ LiveAddrs = {vals[i].trailing.ptr : i \in {j \in Slots : HeapStored(j)}}
    /\ last.op = "drop" =>
        \A n \in 1..Len(last.frees) : last.frees[n].size > INLINE_LEN

\* C9's case: a value of INLINE_LEN + 1 bytes was dropped, its buffer released,
\* while a value of exactly INLINE_LEN bytes is bound.
C9_Witness ==
    /\ last.op = "drop"
    /\ Len(last.frees) = 1
    /\ last.frees[1].size = INLINE_LEN + 1
    /\ \E i \in Slots : Bound(i) /\ vals[i].len = INLINE_LEN

\* C10: the prefix of every bound value is the first min(len, PREFIX_LEN) bytes
\* of its content, then zeros; a heap-stored value's prefix is the first
\* PREFIX_LEN bytes of its buffer, which holds the whole content; an inline
\* value's suffix is the content from byte PREFIX_LEN on, then zeros.
C10_PrefixSuffix ==
    \A i \in Slots :
        Bound(i) =>
            LET v == vals[i]
                t == given[i]
            IN  /\ v.len = Len(t)
                /\ Len(v.prefix) = PREFIX_LEN
                /\ v.prefix = ZeroPad(SubSeq(t, 1, Min(Len(t), PREFIX_LEN)), PREFIX_LEN)
                /\ v.trailing.tag = "ptr" =>
                    /\ heap[v.trailing.ptr].bytes = t
                    /\ v.prefix = SubSeq(heap[v.trailing.ptr].bytes, 1, PREFIX_LEN)
                /\ v.trailing.tag = "suffix" =>
                    v.trailing.suffix =
                        ZeroPad(IF Len(t) > PREFIX_LEN
                                THEN SubSeq(t, PREFIX_LEN + 1, Len(t)) ELSE <<>>,
                                SUFFIX_LEN)

\* C10's case: a value of exactly PREFIX_LEN bytes was cloned; the clone's
\* prefix is the content and its suffix all zeros.
C10_Witness ==
    /\ last.op = "clone"
    /\ last.kind = "Ok"
    /\ given[last.b] = Text(PREFIX_LEN, 0)
    /\ vals[last.b].prefix = Text(PREFIX_LEN, 0)
    /\ vals[last.b].trailing = Suffix(Zeros(SUFFIX_LEN))

====
